---------------------------- MODULE Spec2Model ----------------------------
(***************************************************************************)
(* PupilTracker (src/iot/noir_camera/video_processing.py) and its host     *)
(* loop test_camera (src/iot/noir_camera/test_camera_cli.py).              *)
(*                                                                         *)
(* Units.  cv2.contourArea of an integer-point contour is a multiple of    *)
(* 0.5, so an area is kept as area2 = 2 * area (half pixels^2).  Values    *)
(* rounded by round(x, 2) are kept in hundredths.  An ellipse centre is    *)
(* kept in thousandths of a pixel before rounding.  Perimeters and ellipse *)
(* extents are whole pixels.                                               *)
(***************************************************************************)
EXTENDS Integers, Sequences, FiniteSets, TLC

VARIABLES
    picam2,       \* self.picam2: 0 is None, otherwise the handle held
    session_id,   \* self.session_id: 0 is None, otherwise a time.time_ns() value
    frame_count,  \* self.frame_count
    cameras,      \* the Picamera2 objects constructed so far: handle -> state
    stops,        \* handle -> number of stop() calls it received
    clock,        \* time.time_ns(), a counter that only grows
    op,           \* the method called last
    ret,          \* what it returned: None, Raised, or a value
    cap,          \* what capture_array did in that call
    best,         \* position (evaluation order) of best_candidate, 0 is None
    lastOK,       \* frame_index of the last record of the current session, 0 if none
    grey_frame,   \* the argument of find_best_pupil (PupilSpec)
    pc            \* position of test_camera (HostSpec)

vars == <<picam2, session_id, frame_count, cameras, stops, clock, op, ret,
          cap, best, lastOK, grey_frame, pc>>

(* Return values.  Every value is a record with a field kind. *)
NoneRet == [kind |-> "None"]
RaisedRet == [kind |-> "Raised"]        \* the call raised an exception
TrueRet == [kind |-> "True"]
SelfRet == [kind |-> "self"]

--------------------------------------------------------------------------
(* Bounds of the model *)

MaxContours == 2    \* contours in one frame handed to find_best_pupil (PupilSpec)
MaxCaptured == 2    \* contours in one frame delivered by capture_array
MaxFrames == 5      \* captures made through one tracker
MaxHandles == 2     \* Picamera2 objects constructed
MaxSessions == 2    \* init_session calls

--------------------------------------------------------------------------
(* Constants of find_best_pupil *)

Thresholds == <<25, 45, 65, 85>>
AreaLo == 40
AreaHi == 27000
MinPoints == 5
CircNum == 1
CircDen == 5
AspectNum == 1
AspectDen == 5
BlinkAreaFloor == 400
PiNum == 355
PiDen == 113

--------------------------------------------------------------------------
(* Contours.  A contour is what the cv2 measurements of it return:         *)
(*   area2  = 2 * cv2.contourArea        perim = cv2.arcLength             *)
(*   npts   = len(contour)               cx, cy, w, h = cv2.fitEllipse     *)

Contour(a2, p, n, x, y, ew, eh) ==
    [area2 |-> a2, perim |-> p, npts |-> n, cx |-> x, cy |-> y, w |-> ew, h |-> eh]

NoContour == Contour(0, 0, 0, 0, 0, 0, 0)    \* best_candidate = None

ContourPool ==
    { Contour(80, 26, 8, 50000, 50000, 8, 6),           \* area 40: on the lower filter bound
      Contour(81, 26, 8, 50250, 50000, 8, 6),           \* area 40.5: just inside it
      Contour(200, 40, 8, 80000, 60000, 11, 11),        \* area 100
      Contour(799, 80, 12, 100004, 90006, 22, 22),      \* area 399.5: just under the floor
      Contour(800, 80, 12, 100004, 90006, 22, 22),      \* area 400: on the floor
      Contour(7540, 221, 40, 160004, 119996, 80, 60),   \* area 3770: the 40x30 ellipse
      Contour(7540, 221, 40, 200375, 100125, 80, 60),   \* same measurements, other place
      Contour(53999, 600, 90, 320000, 240000, 190, 180),\* area 26999.5: just inside
      Contour(54000, 600, 90, 320000, 240000, 190, 180),\* area 27000: on the upper bound
      Contour(2984, 226, 30, 160000, 120000, 100, 19),  \* flattened: h < 0.2 * w
      Contour(1800, 120, 4, 160000, 120000, 34, 34),    \* 30x30 square: 4 points
      Contour(2000, 410, 6, 160000, 120000, 200, 6) }   \* 200x5 strip: circularity 0.07

(* A frame, seen through cv2.threshold + cv2.findContours: the contours    *)
(* found at each threshold, in the order findContours lists them.  It is a *)
(* sequence of <<index of the threshold, contour>> grouped by threshold.   *)
FramesOfLen(n) ==
    { f \in [1..n -> (1..Len(Thresholds)) \X ContourPool] :
        \A i \in 1..n : \A j \in 1..n : i < j => f[i][1] <= f[j][1] }

Frames(max) == UNION { FramesOfLen(n) : n \in 0..max }

RECURSIVE ContoursAtFrom(_, _, _)
ContoursAtFrom(f, t, i) ==
    IF i > Len(f) THEN <<>>
    ELSE (IF f[i][1] = t THEN <<f[i][2]>> ELSE <<>>) \o ContoursAtFrom(f, t, i + 1)

(* contours of cv2.findContours on the image binarised at Thresholds[t] *)
FindContours(f, t) == ContoursAtFrom(f, t, 1)

--------------------------------------------------------------------------
(* find_best_pupil *)

(* faulty variant: the upper bound of the size filter taken inclusive *)
AreaInRange_UpperInclusive(c) == 2 * AreaLo < c.area2 /\ c.area2 <= 2 * AreaHi

(* 40 < area < 27000 *)
AreaInRange(c) == 2 * AreaLo < c.area2 /\ c.area2 < 2 * AreaHi

(* circularity = 4*pi*area / perimeter^2 > 0.20, with pi = 355/113 *)
CircularityOK(c) ==
    4 * PiNum * c.area2 * CircDen > 2 * PiDen * c.perim * c.perim * CircNum

(* score = circularity * area = 4*pi*area^2 / perimeter^2.  A score is     *)
(* kept as the pair <<area2, perim>> it is computed from (<<0, 1>> is 0);  *)
(* both being positive, s > t iff area_s * perim_t > area_t * perim_s.     *)
ZeroScore == <<0, 1>>
Score(c) == <<c.area2, c.perim>>
(* faulty variant: score >= highest_score, so that a later equal score takes over *)
ScoreGE(s, t) == s[1] * t[2] >= t[1] * s[2]

ScoreGT(s, t) == s[1] * t[2] > t[1] * s[2]

(* one pass of the body of `for contour in contours`; st is the scan state *)
(* [best_candidate, highest_score, candidate_area, pos, n]                 *)
EvalContour(st, c) ==
    LET here == st.n + 1
        seen == [st EXCEPT !.n = here]
    IN  IF ~AreaInRange(c) THEN seen
        ELSE IF c.perim = 0 THEN seen
        ELSE IF ~CircularityOK(c) THEN seen
        ELSE IF ScoreGT(Score(c), st.highest_score) /\ c.npts >= MinPoints
             THEN [best_candidate |-> c, highest_score |-> Score(c),
                   candidate_area |-> c.area2, pos |-> here, n |-> here]
             ELSE seen

RECURSIVE ScanContours(_, _, _)
ScanContours(st, cs, i) ==
    IF i > Len(cs) THEN st
    ELSE ScanContours(EvalContour(st, cs[i]), cs, i + 1)

RECURSIVE ScanThresholds(_, _, _)
ScanThresholds(st, f, t) ==
    IF t > Len(Thresholds) THEN st
    ELSE ScanThresholds(ScanContours(st, FindContours(f, t), 1), f, t + 1)

ScanInit ==
    [best_candidate |-> NoContour, highest_score |-> ZeroScore,
     candidate_area |-> 0, pos |-> 0, n |-> 0]

(* the scan of lines 65-92 *)
Scan(f) == ScanThresholds(ScanInit, f, 1)

(* round(x, 2) of a value given in thousandths, in hundredths *)
Round2(x) ==
    LET q == x \div 10
        r == x % 10
    IN  IF r < 5 THEN q
        ELSE IF r > 5 THEN q + 1
        ELSE IF q % 2 = 0 THEN q ELSE q + 1

(* round(area, 2) of an area given in half pixels^2, in hundredths *)
RoundArea(a2) == Round2(a2 * 500)

Tuple(b, x, y, a) == [kind |-> "tuple", blink |-> b, cx |-> x, cy |-> y, area |-> a]

BlinkTuple == Tuple(1, 0, 0, 0)

(* faulty variant: the area floor left out of the blink test *)
IsBlink_NoFloor(c, candidate_area) == c.h * AspectDen < c.w * AspectNum

(* h < w * 0.20 or candidate_area < 400 *)
IsBlink(c, candidate_area) ==
    \/ c.h * AspectDen < c.w * AspectNum
    \/ candidate_area < 2 * BlinkAreaFloor

(* faulty variant: a blink of a fitted winner reports the fitted values *)
Classify_KeepsFit(st) ==
    IF st.best_candidate # NoContour
    THEN Tuple(IF IsBlink(st.best_candidate, st.candidate_area) THEN 1 ELSE 0,
               Round2(st.best_candidate.cx), Round2(st.best_candidate.cy),
               RoundArea(st.candidate_area))
    ELSE BlinkTuple

(* lines 94-104 *)
Classify(st) ==
    IF st.best_candidate # NoContour
    THEN IF IsBlink(st.best_candidate, st.candidate_area)
         THEN BlinkTuple
         ELSE Tuple(0, Round2(st.best_candidate.cx), Round2(st.best_candidate.cy),
                    RoundArea(st.candidate_area))
    ELSE BlinkTuple

FindBestPupil(f) == Classify(Scan(f))

--------------------------------------------------------------------------
(* PupilTracker *)

Handles == 1..MaxHandles
Constructed == { h \in Handles : cameras[h] # "absent" }
Open == { h \in Handles : cameras[h] \in {"constructed", "started"} }

Called(name, value) == op' = name /\ ret' = value

(* __init__ *)
Init ==
    /\ picam2 = 0
    /\ session_id = 0
    /\ frame_count = 0
    /\ cameras = [h \in Handles |-> "absent"]
    /\ stops = [h \in Handles |-> 0]
    /\ clock = 0
    /\ op = "__init__"
    /\ ret = NoneRet
    /\ cap = "nocall"
    /\ best = 0
    /\ lastOK = 0
    /\ grey_frame = <<>>
    /\ pc = "start"

(* init_camera.  out is how far it gets: "unavailable" (Picamera2() raises),*)
(* "partial" (configure or start raises) or "ok".                          *)
CameraOutcomes == {"unavailable", "partial", "ok"}

DoInitCamera(out) ==
    LET h == Cardinality(Constructed) + 1 IN
    /\ h \in Handles
    /\ IF out = "unavailable"
       THEN UNCHANGED <<picam2, cameras>>
       ELSE /\ picam2' = h
            /\ cameras' = [cameras EXCEPT ![h] = IF out = "ok" THEN "started"
                                                             ELSE "constructed"]

InitCameraRet(out) == IF out = "ok" THEN TrueRet ELSE RaisedRet

InitCamera ==
    \E out \in CameraOutcomes :
        /\ DoInitCamera(out)
        /\ Called("init_camera", InitCameraRet(out))
        /\ UNCHANGED <<session_id, frame_count, stops, clock, cap, best, lastOK,
                       grey_frame, pc>>

(* init_session *)
DoInitSession ==
    /\ clock < MaxSessions
    /\ clock' = clock + 1
    /\ session_id' = clock + 1
    /\ lastOK' = 0

InitSession ==
    /\ DoInitSession
    /\ Called("init_session", NoneRet)
    /\ UNCHANGED <<picam2, frame_count, cameras, stops, cap, best, grey_frame, pc>>

(* __enter__: init_camera, then init_session unless init_camera raised *)
DoEnter(out) ==
    /\ DoInitCamera(out)
    /\ IF out = "ok" THEN DoInitSession
                     ELSE UNCHANGED <<session_id, clock, lastOK>>
    /\ Called("__enter__", IF out = "ok" THEN SelfRet ELSE RaisedRet)
    /\ UNCHANGED <<frame_count, stops, cap, best, grey_frame>>

Enter == (\E out \in CameraOutcomes : DoEnter(out)) /\ UNCHANGED pc

(* process_frame *)
Record(n, t) ==
    [kind |-> "record", frame_index |-> n, blink |-> t.blink, cx |-> t.cx,
     cy |-> t.cy, area |-> t.area]

(* faulty variant: the counter is advanced before the camera is looked at *)
ProcessFrameNoCamera_Counts ==
    /\ picam2 = 0
    /\ frame_count < MaxFrames
    /\ frame_count' = frame_count + 1
    /\ Called("process_frame", NoneRet)
    /\ cap' = "nocall"
    /\ UNCHANGED <<picam2, session_id, cameras, stops, clock, best, lastOK,
                   grey_frame>>

(* lines 107-108 *)
ProcessFrameNoCamera ==
    /\ picam2 = 0
    /\ Called("process_frame", NoneRet)
    /\ cap' = "nocall"
    /\ UNCHANGED <<picam2, session_id, frame_count, cameras, stops, clock, best,
                   lastOK, grey_frame>>

(* capture_array raises: nothing after line 110 runs *)
CaptureRaises ==
    /\ Called("process_frame", RaisedRet)
    /\ cap' = "raise"
    /\ UNCHANGED <<picam2, session_id, frame_count, cameras, stops, clock, best,
                   lastOK, grey_frame>>

(* faulty variant: a failed capture tears the session down *)
CaptureNone_EndsSession ==
    /\ frame_count' = frame_count + 1
    /\ Called("process_frame", NoneRet)
    /\ cap' = "none"
    /\ stops' = [stops EXCEPT ![picam2] = @ + 1]
    /\ cameras' = [cameras EXCEPT ![picam2] = "stopped"]
    /\ picam2' = 0
    /\ UNCHANGED <<session_id, clock, best, lastOK, grey_frame>>

(* capture_array returns None: lines 111-114 *)
CaptureNone ==
    /\ frame_count' = frame_count + 1
    /\ Called("process_frame", NoneRet)
    /\ cap' = "none"
    /\ UNCHANGED <<picam2, session_id, cameras, stops, clock, best, lastOK,
                   grey_frame>>

(* what find_best_pupil makes of the frames capture_array can deliver:     *)
(* the tuple it returns and the position of its best_candidate             *)
FrameResults ==
    { [tuple |-> FindBestPupil(f), pos |-> Scan(f).pos] : f \in Frames(MaxCaptured) }

(* capture_array returns a frame, of which find_best_pupil makes r:        *)
(* lines 111-120                                                           *)
CaptureFrame(r) ==
    /\ frame_count' = frame_count + 1
    /\ Called("process_frame", Record(frame_count + 1, r.tuple))
    /\ cap' = "frame"
    /\ best' = r.pos
    /\ lastOK' = frame_count + 1
    /\ UNCHANGED <<picam2, session_id, cameras, stops, clock, grey_frame>>

(* A camera that was constructed but never started delivers no frame. *)
ProcessFrameCapture ==
    /\ picam2 # 0
    /\ frame_count < MaxFrames
    /\ \/ CaptureRaises
       \/ cameras[picam2] = "started" /\ CaptureNone
       \/ cameras[picam2] = "started" /\ \E r \in FrameResults : CaptureFrame(r)

ProcessFrameCall == ProcessFrameNoCamera \/ ProcessFrameCapture

ProcessFrame == ProcessFrameCall /\ UNCHANGED pc

(* faulty variant: the camera is stopped but the handle is kept *)
DoEndSession_KeepsHandle ==
    IF picam2 # 0
    THEN /\ stops' = [stops EXCEPT ![picam2] = @ + 1]
         /\ cameras' = [cameras EXCEPT ![picam2] = "stopped"]
         /\ UNCHANGED picam2
    ELSE UNCHANGED <<picam2, cameras, stops>>

(* end_session *)
DoEndSession ==
    IF picam2 # 0
    THEN /\ stops' = [stops EXCEPT ![picam2] = @ + 1]
         /\ cameras' = [cameras EXCEPT ![picam2] = "stopped"]
         /\ picam2' = 0
    ELSE UNCHANGED <<picam2, cameras, stops>>

EndSessionCall ==
    /\ DoEndSession
    /\ Called("end_session", NoneRet)
    /\ UNCHANGED <<session_id, frame_count, clock, cap, best, lastOK, grey_frame>>

EndSession == EndSessionCall /\ UNCHANGED pc

(* __exit__ *)
DoExit ==
    /\ DoEndSession
    /\ Called("__exit__", NoneRet)
    /\ UNCHANGED <<session_id, frame_count, clock, cap, best, lastOK, grey_frame>>

Exit == DoExit /\ UNCHANGED pc

(* Any sequence of calls on one tracker *)
Next ==
    \/ InitCamera
    \/ InitSession
    \/ Enter
    \/ ProcessFrame
    \/ EndSession
    \/ Exit

Spec == Init /\ [][Next]_vars

--------------------------------------------------------------------------
(* test_camera: one tracker used through the with statement *)

(* with PupilTracker() as tracker: an exception of __enter__ skips the     *)
(* body and __exit__ and is caught by `except Exception`                   *)
HostEnter ==
    /\ pc = "start"
    /\ \E out \in CameraOutcomes :
          /\ DoEnter(out)
          /\ pc' = IF out = "ok" THEN "loop" ELSE "done"

(* data = tracker.process_frame(); a record is truthy and the loop goes    *)
(* on, None breaks, an exception leaves the with block                     *)
HostProcessFrame ==
    /\ pc = "loop"
    /\ ProcessFrameCall
    /\ pc' = IF ret'.kind = "record" THEN "loop" ELSE "exit"

(* Ctrl+C between two frames *)
HostInterrupt ==
    /\ pc = "loop"
    /\ pc' = "exit"
    /\ Called("KeyboardInterrupt", RaisedRet)
    /\ UNCHANGED <<picam2, session_id, frame_count, cameras, stops, clock, cap,
                   best, lastOK, grey_frame>>

(* leaving the with block, by break or by an exception, calls __exit__ *)
HostExit ==
    /\ pc = "exit"
    /\ DoExit
    /\ pc' = "done"

(* a caller that calls end_session once more on the tracker it still holds *)
HostEndSessionAgain ==
    /\ pc = "done"
    /\ EndSessionCall
    /\ pc' = "after"

HostNext ==
    \/ HostEnter
    \/ HostProcessFrame
    \/ HostInterrupt
    \/ HostExit
    \/ HostEndSessionAgain

HostSpec == Init /\ [][HostNext]_vars

--------------------------------------------------------------------------
(* find_best_pupil on its own: every frame of up to MaxContours contours *)

PupilInit ==
    /\ picam2 = 0
    /\ session_id = 0
    /\ frame_count = 0
    /\ cameras = [h \in Handles |-> "absent"]
    /\ stops = [h \in Handles |-> 0]
    /\ clock = 0
    /\ op = "__init__"
    /\ ret = NoneRet
    /\ cap = "nocall"
    /\ best = 0
    /\ lastOK = 0
    /\ grey_frame \in Frames(MaxContours)
    /\ pc = "start"

FindBestPupilCall ==
    /\ op = "__init__"
    /\ Called("find_best_pupil", FindBestPupil(grey_frame))
    /\ best' = Scan(grey_frame).pos
    /\ UNCHANGED <<picam2, session_id, frame_count, cameras, stops, clock, cap,
                   lastOK, grey_frame, pc>>

PupilNext == FindBestPupilCall

PupilSpec == PupilInit /\ [][PupilNext]_vars

--------------------------------------------------------------------------
(* Properties *)

IsRecord == op = "process_frame" /\ ret.kind = "record"

(* C1: within one session the frame_index of consecutive successful        *)
(* process_frame calls goes up by exactly 1, and the first successful call *)
(* of the session returns 1 (lastOK is the index of the previous record of *)
(* the session, 0 when the session has none yet).                          *)
C1_IndexStepsByOne ==
    [][(session_id # 0 /\ op' = "process_frame" /\ ret'.kind = "record")
          => ret'.frame_index = lastOK + 1]_vars

(* C2: a record whose blink flag is set carries cx = cy = area = 0 *)
C2_BlinkIsZero ==
    (IsRecord /\ ret.blink = 1) => (ret.cx = 0 /\ ret.cy = 0 /\ ret.area = 0)

(* a blink record that comes from a fitted winner (flattened or under the floor) *)
C2_Witness == IsRecord /\ ret.blink = 1 /\ best # 0

(* C3 as stated: a record whose blink flag is clear has an area inside the *)
(* open interval (400, 25000) (areas in hundredths)                        *)
C3_AreaInSpecRange ==
    (IsRecord /\ ret.blink = 0) => (ret.area > 0 /\ 40000 < ret.area /\ ret.area < 2500000)

(* C3 amended: a record whose blink flag is clear has 400 <= area < 27000 *)
C3_AreaInCodeRange ==
    (IsRecord /\ ret.blink = 0)
        => (ret.area > 0 /\ 100 * BlinkAreaFloor <= ret.area /\ ret.area < 100 * AreaHi)

(* a detected pupil of area 26999.5, beyond 25000 *)
C3_Witness == IsRecord /\ ret.blink = 0 /\ ret.area = 2699950

(* C4: a session that became Active has its camera stopped exactly once,   *)
(* whichever way the with block is left, and not before it is left; a      *)
(* further end_session does not stop it again.                             *)
C4_ReleasedExactlyOnce ==
    /\ \A h \in Handles : stops[h] <= 1
    /\ pc \in {"loop", "exit"} => (picam2 # 0 /\ stops[picam2] = 0)
    /\ (session_id # 0 /\ pc \in {"done", "after"})
          => (picam2 = 0 /\ \A h \in Constructed : stops[h] = 1)

(* an Active session that ended, followed by one more end_session *)
C4_Witness == pc = "after" /\ session_id # 0 /\ stops[1] = 1 /\ frame_count > 0

(* C5: at most one camera handle is open, and an open handle is the one    *)
(* the tracker references                                                  *)
C5_NoLeakedHandle ==
    /\ Cardinality(Open) <= 1
    /\ \A h \in Open : h = picam2

(* C6: once the session is stopped, every call other than a new start      *)
(* leaves the camera handle, the cameras and the frame counter alone, and  *)
(* process_frame captures nothing and returns None                         *)
Ended == picam2 = 0 /\ \E h \in Handles : cameras[h] = "stopped"

C7_EnterResetsCounter ==
    [][(picam2 = 0 /\ op' = "__enter__" /\ ret' = SelfRet) => frame_count' = 0]_vars

(* C8: the winner passes every filter and has the highest score among the  *)
(* candidates that do; of equal top scores the first evaluated wins; there *)
(* is no winner exactly when no candidate passes                           *)
C8_Candidate(i) == grey_frame[i][2]

C8_Passes(c) ==
    /\ 2 * AreaLo < c.area2 /\ c.area2 < 2 * AreaHi
    /\ c.perim > 0
    /\ c.npts >= 5
    /\ 20 * PiNum * c.area2 > 2 * PiDen * c.perim * c.perim

C8_Survivors == { i \in 1..Len(grey_frame) : C8_Passes(C8_Candidate(i)) }

(* score_i ? score_j, as area_i * perim_j ? area_j * perim_i *)
C8_Cross(i, j) == C8_Candidate(i).area2 * C8_Candidate(j).perim

C8_ScorerPicksBest ==
    op = "find_best_pupil" =>
        /\ best = 0 <=> C8_Survivors = {}
        /\ best # 0 =>
            /\ best \in C8_Survivors
            /\ \A j \in C8_Survivors :
                  /\ C8_Cross(j, best) <= C8_Cross(best, j)
                  /\ C8_Cross(j, best) = C8_Cross(best, j) => best <= j

(* two different survivors of equal score: the first one won *)
C8_Witness ==
    /\ op = "find_best_pupil"
    /\ Len(grey_frame) = 2
    /\ C8_Survivors = {1, 2}
    /\ C8_Candidate(1) # C8_Candidate(2)
    /\ C8_Cross(1, 2) = C8_Cross(2, 1)
    /\ best = 1

(* C9: a capture that returns None makes process_frame return None, and    *)
(* leaves the handle held and the camera running; the handle is given up   *)
(* only by end_session or __exit__                                         *)
C9_CaptureFailureIsSignal ==
    [][/\ (op' = "process_frame" /\ cap' = "none")
            => (ret' = NoneRet /\ picam2 # 0 /\ picam2' = picam2
                /\ cameras' = cameras /\ stops' = stops)
       /\ (picam2 # 0 /\ picam2' = 0) => op' \in {"end_session", "__exit__"}]_vars

C9_Witness ==
    /\ op = "process_frame" /\ cap = "none" /\ ret = NoneRet
    /\ picam2 # 0 /\ cameras[picam2] = "started" /\ stops[picam2] = 0

(* C10: blink is reported exactly when there is no winner, or the fitted   *)
(* ellipse has h < 0.20 * w, or the winner's area is below 400; a frame    *)
(* whose contours all have area below 400 is a blink; any other frame      *)
(* reports the winner's centre and area, to two decimals                   *)
C10_BlinkExactlyWhen ==
    op = "find_best_pupil" =>
        LET W == IF best = 0 THEN NoContour ELSE grey_frame[best][2] IN
        /\ ret.blink = 1 <=> (best = 0 \/ 5 * W.h < W.w \/ W.area2 < 800)
        /\ (\A i \in 1..Len(grey_frame) : grey_frame[i][2].area2 < 800) => ret.blink = 1
        /\ ret.blink = 0 =>
            /\ 10 * ret.cx - W.cx \in -5..5
            /\ 10 * ret.cy - W.cy \in -5..5
            /\ 2 * ret.area = 100 * W.area2

(* the only dark region has area 100; it wins the scan and is a blink *)
C10_Witness ==
    /\ op = "find_best_pupil"
    /\ Len(grey_frame) = 1
    /\ grey_frame[1][2].area2 = 200
    /\ best = 1
    /\ ret.blink = 1

==========================================================================
